---- MODULE Spec2Model ----
(***************************************************************************)
(* Model of src/main.py: the BeArt AI face-swap relay.                     *)
(*                                                                         *)
(* One request at a time runs through                                      *)
(*   verify_auth_token -> face_swap: read + _validate_image                *)
(*   -> create_face_swap_job -> get_face_swap_result (polling loop)        *)
(*   -> download_image -> upload_to_cos -> os.remove -> response.          *)
(* The handler is an `async def` whose vendor, storage and sleep calls are *)
(* blocking, so one worker runs the pipelines of successive requests one   *)
(* after the other; the local output directory (disk) outlives a request.  *)
(*                                                                         *)
(* Bytes are integers 0..255, byte buffers are sequences of bytes, text is *)
(* a sequence of one-character strings.  The vendor, the download server,  *)
(* the storage provider and the file system are the environment: their     *)
(* answers are chosen nondeterministically.  A vendor answer with code     *)
(* 100000 is taken to carry its result payload (job_id, output[0]).        *)
(***************************************************************************)
EXTENDS Integers, Sequences, FiniteSets, TLC

None == "None"

Min(a, b) == IF a < b THEN a ELSE b

(***************************************************************************)
(* Python primitives used by the source.                                   *)
(***************************************************************************)

\* s[lo:hi] for 0 <= lo <= hi (Python slicing clamps to the length).
Slice(s, lo, hi) == SubSeq(s, lo + 1, Min(hi, Len(s)))

\* bytes.startswith / str.startswith
startswith(s, prefix) ==
    /\ Len(s) >= Len(prefix)
    /\ SubSeq(s, 1, Len(prefix)) = prefix

\* str.lower on one character (the letters the model's headers use).
LowerChar(c) ==
    CASE c = "B" -> "b"
      [] c = "E" -> "e"
      [] c = "A" -> "a"
      [] c = "R" -> "r"
      [] c = "I" -> "i"
      [] c = "S" -> "s"
      [] c = "C" -> "c"
      [] c = "T" -> "t"
      [] c = "O" -> "o"
      [] c = "K" -> "k"
      [] c = "N" -> "n"
      [] OTHER -> c

\* str.lower
lower(s) == [i \in 1..Len(s) |-> LowerChar(s[i])]

\* index (1-based) of the first occurrence of character c in s, 0 if none
RECURSIVE FindFrom(_, _, _)
FindFrom(s, c, i) ==
    IF i > Len(s) THEN 0
    ELSE IF s[i] = c THEN i
    ELSE FindFrom(s, c, i + 1)

\* str.partition(sep) for a one-character separator: <<head, sep, tail>>
partition(s, sep) ==
    LET k == FindFrom(s, sep, 1) IN
    IF k = 0 THEN << s, << >>, << >> >>
    ELSE << SubSeq(s, 1, k - 1), << sep >>, SubSeq(s, k + 1, Len(s)) >>

\* str.split(sep) for a one-character separator, as a sequence of strings
RECURSIVE split(_, _)
split(s, sep) ==
    LET k == FindFrom(s, sep, 1) IN
    IF k = 0 THEN << s >>
    ELSE << SubSeq(s, 1, k - 1) >> \o split(SubSeq(s, k + 1, Len(s)), sep)

Range(f) == { f[i] : i \in DOMAIN f }

(***************************************************************************)
(* Format sniffer: FaceSwapService._validate_image / _get_mime_type.       *)
(***************************************************************************)

SigJPEG   == << 255, 216, 255 >>
SigPNG    == << 137, 80, 78, 71, 13, 10, 26, 10 >>
SigGIF87a == << 71, 73, 70, 56, 55, 97 >>
SigGIF89a == << 71, 73, 70, 56, 57, 97 >>
SigRIFF   == << 82, 73, 70, 70 >>
SigWEBP   == << 87, 69, 66, 80 >>
SigBM     == << 66, 77 >>

HeaderLen == 12

Mut_validate_image_short_header(image_data) ==
    LET header == Slice(image_data, 0, 8) IN
    \/ startswith(header, SigJPEG)
    \/ startswith(header, SigPNG)
    \/ startswith(header, SigGIF87a)
    \/ startswith(header, SigGIF89a)
    \/ (startswith(header, SigRIFF) /\ Slice(header, 8, 12) = SigWEBP)
    \/ startswith(header, SigBM)

_validate_image(image_data) ==
    LET header == Slice(image_data, 0, HeaderLen) IN
    \/ startswith(header, SigJPEG)
    \/ startswith(header, SigPNG)
    \/ startswith(header, SigGIF87a)
    \/ startswith(header, SigGIF89a)
    \/ (startswith(header, SigRIFF) /\ Slice(header, 8, 12) = SigWEBP)
    \/ startswith(header, SigBM)

_get_mime_type(image_data) ==
    LET header == Slice(image_data, 0, HeaderLen) IN
    IF startswith(header, SigJPEG) THEN "image/jpeg"
    ELSE IF startswith(header, SigPNG) THEN "image/png"
    ELSE IF startswith(header, SigGIF87a) \/ startswith(header, SigGIF89a)
         THEN "image/gif"
    ELSE IF startswith(header, SigRIFF) /\ Slice(header, 8, 12) = SigWEBP
         THEN "image/webp"
    ELSE IF startswith(header, SigBM) THEN "image/bmp"
    ELSE "image/jpeg"

(***************************************************************************)
(* Configuration read from the environment at import (main.py 20-26).      *)
(***************************************************************************)

region == "region"
bucket == "bucket"
image_output_path == "./output"

Txt_token1 == << "t", "o", "k", "e", "n", "1" >>
Txt_token2 == << "t", "o", "k", "e", "n", "2" >>
Txt_token3 == << "t", "o", "k", "e", "n", "3" >>

\* the default of VALID_TOKENS: 'token1,token2'
VALID_TOKENS == Txt_token1 \o << "," >> \o Txt_token2

valid_tokens == split(VALID_TOKENS, ",")

(***************************************************************************)
(* Exceptions and their text.  The messages of the source are Chinese; the *)
(* model names them in ASCII.  A text is a sequence of pieces, so that     *)
(* concatenation in the source is concatenation here.                      *)
(***************************************************************************)

MsgCreateFailed   == "BeArt job creation failed: "       \* main.py 81
MsgResultFailed   == "face-swap result fetch failed"     \* main.py 96
MsgRetryExceeded  == "maximum retries exceeded"          \* main.py 97
MsgUploadFailed   == "upload failed"                     \* main.py 131
MsgUnsupported    == "image format not supported"        \* main.py 140
MsgHandlerPrefix  == "processing failed: "               \* main.py 151
MsgMissingHeader  == "Missing Authorization Header"      \* main.py 102
MsgInvalidToken   == "Invalid or Expired Token"          \* main.py 105

Exception(msg) == [type |-> "Exception", status_code |-> 0, detail |-> msg]

HTTPException(code, msg) ==
    [type |-> "HTTPException", status_code |-> code, detail |-> msg]

\* str(e): the message of a plain exception; starlette's HTTPException
\* prints as "<status_code>: <detail>".
str(e) ==
    IF e.type = "HTTPException"
    THEN << ToString(e.status_code), ": " >> \o e.detail
    ELSE e.detail

Return(v) == [raised |-> FALSE, value |-> v, exc |-> None]
Raise(e)  == [raised |-> TRUE, value |-> None, exc |-> e]

\* FastAPI's rendering of an HTTPException that leaves the route.
ErrorResponse(e) ==
    [status |-> e.status_code, body |-> [detail |-> e.detail]]

(***************************************************************************)
(* verify_auth_token (main.py 100-106).  authorization.present is FALSE    *)
(* when the header is absent (Header(None)), otherwise authorization.text  *)
(* is the header's text.                                                   *)
(***************************************************************************)

Txt_bearer == << "b", "e", "a", "r", "e", "r" >>

Mut_verify_auth_token_and(authorization) ==
    IF ~authorization.present \/ authorization.text = << >>
    THEN Raise(HTTPException(401, << MsgMissingHeader >>))
    ELSE LET parts  == partition(authorization.text, " ")
             scheme == parts[1]
             token  == parts[3]
         IN  IF lower(scheme) # Txt_bearer /\ token \notin Range(valid_tokens)
             THEN Raise(HTTPException(403, << MsgInvalidToken >>))
             ELSE Return(token)

verify_auth_token(authorization) ==
    IF ~authorization.present \/ authorization.text = << >>
    THEN Raise(HTTPException(401, << MsgMissingHeader >>))
    ELSE LET parts  == partition(authorization.text, " ")
             scheme == parts[1]
             token  == parts[3]
         IN  IF lower(scheme) # Txt_bearer \/ token \notin Range(valid_tokens)
             THEN Raise(HTTPException(403, << MsgInvalidToken >>))
             ELSE Return(token)

(***************************************************************************)
(* The vendor client: a response is [status, code, payload, text].         *)
(***************************************************************************)

CodeSuccess    == 100000
CodeProcessing == 300001

Mut_retries_31 == 30 + 1

retries  == 30
interval == 2

Mut_create_face_swap_job_any_status(resp) ==
    IF resp.code = CodeSuccess
    THEN Return(resp.payload)
    ELSE Raise(Exception(<< MsgCreateFailed, resp.text >>))

\* main.py 79-81: the value returned or the exception raised for a response
create_face_swap_job(resp) ==
    IF resp.status = 200 /\ resp.code = CodeSuccess
    THEN Return(resp.payload)
    ELSE Raise(Exception(<< MsgCreateFailed, resp.text >>))

Mut_PollStep_retry_unknown(resp) ==
    IF resp.status = 200 /\ resp.code = CodeSuccess THEN "return"
    ELSE IF resp.status = 200 THEN "continue"
    ELSE "raise"

Mut_PollStep_ignore_status(resp) ==
    IF resp.code = CodeSuccess /\ resp.status = 200 THEN "return"
    ELSE IF resp.code = CodeProcessing THEN "continue"
    ELSE "raise"

\* main.py 89-96: what one iteration of the polling loop does with a response
PollStep(resp) ==
    IF resp.status = 200
    THEN IF resp.code = CodeSuccess THEN "return"
         ELSE IF resp.code = CodeProcessing THEN "continue"
         ELSE "raise"
    ELSE "raise"

(***************************************************************************)
(* generate_filename / upload_to_cos.                                      *)
(***************************************************************************)

\* main.py 110: faceswap_<timestamp>_<random>.jpg
generate_filename(stamp) == << "faceswap_", stamp, ".jpg" >>

\* os.path.join(base, name)
join(base, name) == << base, "/", name >>

Mut_CosUrl_region_first(file_name) ==
    << "https://", region, ".cos.", bucket, ".myqcloud.com/", file_name >>

\* main.py 130
CosUrl(file_name) ==
    << "https://", bucket, ".cos.", region, ".myqcloud.com/", file_name >>

Mut_upload_to_cos_ignore_etag(resp, file_name) ==
    Return(CosUrl(file_name))

\* main.py 129-131: resp is the set of keys of the provider's answer
upload_to_cos(resp, file_name) ==
    IF "ETag" \in resp
    THEN Return(CosUrl(file_name))
    ELSE Raise(Exception(<< MsgUploadFailed >>))

\* main.py 149-151: the route's catch-all
HandlerCatch(e) ==
    ErrorResponse(HTTPException(500, << MsgHandlerPrefix >> \o str(e)))

(***************************************************************************)
(* Inputs of the model.                                                    *)
(***************************************************************************)

MaxRequests == 2

Txt_Bearer == << "B", "e", "a", "r", "e", "r" >>
Txt_Basic  == << "B", "a", "s", "i", "c" >>

Schemes == { Txt_Bearer, Txt_bearer, Txt_Basic }
Seps    == { << >>, << " " >>, << " ", " " >> }
Tokens  == { Txt_token1, Txt_token2, Txt_token3, << >> }

Headers ==
    { [present |-> FALSE, text |-> << >>], [present |-> TRUE, text |-> << >>] }
    \cup { [present |-> TRUE, text |-> s \o sep \o t] :
             s \in Schemes, sep \in Seps, t \in Tokens }

BufJPEG == << 255, 216, 255, 224, 0, 16, 74, 70, 73, 70, 0, 1, 1, 0 >>
BufPNG  == << 137, 80, 78, 71, 13, 10, 26, 10, 0, 0, 0, 13, 73, 72 >>
BufGIF7 == << 71, 73, 70, 56, 55, 97, 1, 0, 1, 0, 128, 0, 0, 0 >>
BufGIF9 == << 71, 73, 70, 56, 57, 97, 1, 0, 1, 0, 128, 0, 0, 0 >>
BufWEBP == << 82, 73, 70, 70, 36, 0, 0, 0, 87, 69, 66, 80, 86, 80 >>
BufBMP  == << 66, 77, 70, 0, 0, 0, 0, 0, 0, 0, 54, 0, 0, 0 >>
BufWAV  == << 82, 73, 70, 70, 36, 0, 0, 0, 87, 65, 86, 69, 102, 109 >>
BufText == << 104, 101, 108, 108, 111, 32, 119, 111, 114, 108, 100, 33, 33, 33 >>

\* uploads of the request pipeline
Uploads == { BufJPEG, BufPNG, BufWAV, << 255, 216 >> }

\* answers of the vendor: HTTP status, vendor code (0: no code), payload
Statuses  == { 200, 500 }
Codes     == { CodeSuccess, CodeProcessing, 400000, 0 }

CreateResponses ==
    { [status |-> st, code |-> c, payload |-> "J1", text |-> "body"] :
        st \in Statuses, c \in Codes }

OutputUrls == { "https://vendor/out.jpg", "https://vendor/out2.jpg" }

\* only an answer with code 100000 carries an output list
PollResponses ==
    { [status |-> st, code |-> CodeSuccess, payload |-> u, text |-> "body"] :
        st \in Statuses, u \in OutputUrls }
    \cup { [status |-> st, code |-> c, payload |-> "", text |-> "body"] :
             st \in Statuses, c \in Codes \ { CodeSuccess } }

\* <timestamp>_<random> parts of generated file names
Stamps == { "20240101000000_1000", "20240101000000_9999" }

DownloadOutcomes == { "ok", "request_failed", "write_failed" }

\* the provider's answer to upload_file: its keys, or an error raised
UploadAnswers == { [raised |-> FALSE, keys |-> { "ETag" }],
                   [raised |-> FALSE, keys |-> { }],
                   [raised |-> TRUE, keys |-> { }] }

(***************************************************************************)
(* State.                                                                  *)
(***************************************************************************)

VARIABLES
    pc,             \* position of the request in flight
    served,         \* number of requests accepted so far
    authorization,  \* the request's Authorization header
    source_image,   \* the request's uploads
    target_image,
    job_id,         \* locals of face_swap
    result_url,
    filename,
    cos_url,
    attempt,        \* iterations of the polling loop completed
    disk,           \* paths of the files in image_output_path
    artifact,       \* paths written by download_image for this request
    response,       \* the response to the request (status 0: none yet)
    trace           \* outbound calls, sleeps and file operations of the request

vars == << pc, served, authorization, source_image, target_image, job_id,
           result_url, filename, cos_url, attempt, disk, artifact, response,
           trace >>

NoResponse == [status |-> 0, body |-> [detail |-> << >>]]
NoHeader   == [present |-> FALSE, text |-> << >>]

Init ==
    /\ pc = "idle"
    /\ served = 0
    /\ authorization = NoHeader
    /\ source_image = << >>
    /\ target_image = << >>
    /\ job_id = ""
    /\ result_url = ""
    /\ filename = << >>
    /\ cos_url = << >>
    /\ attempt = 0
    /\ disk = { }
    /\ artifact = { }
    /\ response = NoResponse
    /\ trace = << >>

\* the route raises e inside its try block: caught, answered with 500
Fail(e) ==
    /\ response' = HandlerCatch(e)
    /\ pc' = "done"

(***************************************************************************)
(* Operations.                                                             *)
(***************************************************************************)

\* a request arrives
NewRequest ==
    /\ pc \in { "idle", "done" }
    /\ served < MaxRequests
    /\ served' = served + 1
    /\ authorization' \in Headers
    /\ source_image' \in Uploads
    /\ target_image' \in Uploads
    /\ job_id' = ""
    /\ result_url' = ""
    /\ filename' = << >>
    /\ cos_url' = << >>
    /\ attempt' = 0
    /\ artifact' = { }
    /\ response' = NoResponse
    /\ trace' = << >>
    /\ pc' = "auth"
    /\ UNCHANGED disk

\* Depends(verify_auth_token), main.py 135 and 100-106
Authenticate ==
    /\ pc = "auth"
    /\ LET r == verify_auth_token(authorization) IN
       IF r.raised
       THEN /\ response' = ErrorResponse(r.exc)
            /\ pc' = "done"
            /\ UNCHANGED trace
       ELSE /\ trace' = Append(trace, << "auth_ok", r.value >>)
            /\ pc' = "validate"
            /\ UNCHANGED response
    /\ UNCHANGED << served, authorization, source_image, target_image, job_id,
                    result_url, filename, cos_url, attempt, disk, artifact >>

\* face_swap, main.py 137-140
Validate ==
    /\ pc = "validate"
    /\ IF ~_validate_image(source_image) \/ ~_validate_image(target_image)
       THEN /\ Fail(HTTPException(400, << MsgUnsupported >>))
            /\ UNCHANGED trace
       ELSE /\ trace' = Append(trace, << "validated" >>)
            /\ pc' = "create"
            /\ UNCHANGED response
    /\ UNCHANGED << served, authorization, source_image, target_image, job_id,
                    result_url, filename, cos_url, attempt, disk, artifact >>

\* face_swap, main.py 142; create_face_swap_job, main.py 69-81
CreateJob ==
    /\ pc = "create"
    /\ \E resp \in CreateResponses :
         LET r == create_face_swap_job(resp) IN
         /\ trace' = Append(trace, << "create", resp.status, resp.code,
                                      _get_mime_type(source_image),
                                      _get_mime_type(target_image) >>)
         /\ IF r.raised
            THEN /\ Fail(r.exc)
                 /\ UNCHANGED job_id
            ELSE /\ job_id' = r.value
                 /\ pc' = "poll"
                 /\ UNCHANGED response
    /\ UNCHANGED << served, authorization, source_image, target_image,
                    result_url, filename, cos_url, attempt, disk, artifact >>

\* one iteration of the loop of get_face_swap_result, main.py 87-97,
\* with the exit of the loop when it was the last one
Poll ==
    /\ pc = "poll"
    /\ attempt < retries
    /\ \E resp \in PollResponses :
         LET step == PollStep(resp)
             call == << "poll", resp.status, resp.code, resp.payload >>
         IN
         CASE step = "return" ->
                /\ trace' = Append(trace, call)
                /\ result_url' = resp.payload
                /\ pc' = "download"
                /\ UNCHANGED << attempt, response >>
           [] step = "continue" ->
                /\ trace' = trace \o << call, << "sleep", interval >> >>
                /\ attempt' = attempt + 1
                /\ IF attempt + 1 < retries
                   THEN UNCHANGED << pc, response >>
                   ELSE Fail(Exception(<< MsgRetryExceeded >>))
                /\ UNCHANGED result_url
           [] OTHER ->
                /\ trace' = Append(trace, call)
                /\ Fail(Exception(<< MsgResultFailed >>))
                /\ UNCHANGED << attempt, result_url >>
    /\ UNCHANGED << served, authorization, source_image, target_image, job_id,
                    filename, cos_url, disk, artifact >>

\* face_swap, main.py 144; download_image, main.py 113-122
Download ==
    /\ pc = "download"
    /\ \E outcome \in DownloadOutcomes, stamp \in Stamps :
         LET name == generate_filename(stamp)
             path == join(image_output_path, name)
         IN
         /\ trace' = Append(trace, << "download", result_url, outcome >>)
         /\ CASE outcome = "request_failed" ->
                   /\ Fail(Exception(<< "HTTPError" >>))
                   /\ UNCHANGED << filename, disk, artifact >>
              [] outcome = "write_failed" ->
                   /\ disk' = disk \cup { path }
                   /\ artifact' = artifact \cup { path }
                   /\ Fail(Exception(<< "ChunkedEncodingError" >>))
                   /\ UNCHANGED filename
              [] OTHER ->
                   /\ disk' = disk \cup { path }
                   /\ artifact' = artifact \cup { path }
                   /\ filename' = name
                   /\ pc' = "upload"
                   /\ UNCHANGED response
    /\ UNCHANGED << served, authorization, source_image, target_image, job_id,
                    result_url, cos_url, attempt >>

\* face_swap, main.py 145; upload_to_cos, main.py 125-131
Upload ==
    /\ pc = "upload"
    /\ \E answer \in UploadAnswers :
         LET r == IF answer.raised
                  THEN Raise(Exception(<< "CosServiceError" >>))
                  ELSE upload_to_cos(answer.keys, filename)
         IN
         /\ trace' = Append(trace, << "upload", filename, answer.raised,
                                      "ETag" \in answer.keys >>)
         /\ IF r.raised
            THEN /\ Fail(r.exc)
                 /\ UNCHANGED cos_url
            ELSE /\ cos_url' = r.value
                 /\ pc' = "remove"
                 /\ UNCHANGED response
    /\ UNCHANGED << served, authorization, source_image, target_image, job_id,
                    result_url, filename, attempt, disk, artifact >>

\* face_swap, main.py 146-147: os.remove(path), then the success body
Remove ==
    /\ pc = "remove"
    /\ \E removed \in BOOLEAN :
         LET path == join(image_output_path, filename) IN
         /\ trace' = Append(trace, << "remove", path, removed >>)
         /\ IF removed
            THEN /\ disk' = disk \ { path }
                 /\ response' = [status |-> 200,
                                 body |-> [success |-> TRUE,
                                           image_url |-> cos_url,
                                           original_url |-> result_url]]
                 /\ pc' = "done"
            ELSE /\ Fail(Exception(<< "OSError" >>))
                 /\ UNCHANGED disk
    /\ UNCHANGED << served, authorization, source_image, target_image, job_id,
                    result_url, filename, cos_url, attempt, artifact >>

Next ==
    \/ NewRequest
    \/ Authenticate
    \/ Validate
    \/ CreateJob
    \/ Poll
    \/ Download
    \/ Upload
    \/ Remove

Spec == Init /\ [][Next]_vars

(***************************************************************************)
(* The sniffer on its own: one buffer, _validate_image then _get_mime_type.*)
(***************************************************************************)

SniffBases ==
    { BufJPEG, BufPNG, BufGIF7, BufGIF9, BufWEBP, BufBMP, BufWAV, BufText }

SniffBytes == { 0, 71, 255 }

\* every base, with one byte replaced or none, cut to every length, and the
\* bases followed by further bytes
SniffBuffers ==
    { SubSeq([b EXCEPT ![i] = v], 1, n) :
        b \in SniffBases, i \in 1..14, v \in SniffBytes, n \in 0..14 }
    \cup { SubSeq(b, 1, n) : b \in SniffBases, n \in 0..14 }
    \cup { b \o c : b \in SniffBases, c \in SniffBases }

InitSniffer ==
    /\ pc = "sniff"
    /\ served = 0
    /\ authorization = NoHeader
    /\ source_image \in SniffBuffers
    /\ target_image = << >>
    /\ job_id = ""
    /\ result_url = ""
    /\ filename = << >>
    /\ cos_url = << >>
    /\ attempt = 0
    /\ disk = { }
    /\ artifact = { }
    /\ response = NoResponse
    /\ trace = << >>

CallValidate ==
    /\ pc = "sniff"
    /\ trace' = Append(trace, << "_validate_image",
                                 _validate_image(source_image) >>)
    /\ pc' = "sniff_mime"
    /\ UNCHANGED << served, authorization, source_image, target_image, job_id,
                    result_url, filename, cos_url, attempt, disk, artifact,
                    response >>

CallMimeType ==
    /\ pc = "sniff_mime"
    /\ trace' = Append(trace, << "_get_mime_type",
                                 _get_mime_type(source_image) >>)
    /\ pc' = "sniffed"
    /\ UNCHANGED << served, authorization, source_image, target_image, job_id,
                    result_url, filename, cos_url, attempt, disk, artifact,
                    response >>

NextSniffer == CallValidate \/ CallMimeType

SnifferSpec == InitSniffer /\ [][NextSniffer]_vars

TypeOK ==
    /\ pc \in { "idle", "auth", "validate", "create", "poll", "download",
                "upload", "remove", "done", "sniff", "sniff_mime", "sniffed" }
    /\ served \in 0..MaxRequests
    /\ attempt \in 0..retries
    /\ response.status \in { 0, 200, 401, 403, 500 }

(***************************************************************************)
(* Properties.                                                             *)
(***************************************************************************)

\* positions of the events of one kind in the trace
Ops(op) == { i \in DOMAIN trace : trace[i][1] = op }
Count(op) == Cardinality(Ops(op))

\* buffer b holds the bytes sig at offset off (0-based)
HasAt(b, off, sig) ==
    /\ Len(b) >= off + Len(sig)
    /\ \A i \in 1..Len(sig) : b[off + i] = sig[i]

IsJPEG(b) == HasAt(b, 0, << 255, 216, 255 >>)
IsPNG(b)  == HasAt(b, 0, << 137, 80, 78, 71, 13, 10, 26, 10 >>)
IsGIF(b)  == \/ HasAt(b, 0, << 71, 73, 70, 56, 55, 97 >>)
             \/ HasAt(b, 0, << 71, 73, 70, 56, 57, 97 >>)
IsWEBP(b) == /\ HasAt(b, 0, << 82, 73, 70, 70 >>)
             /\ HasAt(b, 8, << 87, 69, 66, 80 >>)
IsBMP(b)  == HasAt(b, 0, << 66, 77 >>)

Recognized(b) == IsJPEG(b) \/ IsPNG(b) \/ IsGIF(b) \/ IsWEBP(b) \/ IsBMP(b)

\* C6: _validate_image accepts a buffer exactly when its leading bytes carry
\* one of the signatures JPEG, PNG, GIF87a, GIF89a, WEBP (RIFF at 0 and WEBP
\* at 8) or BMP; _get_mime_type returns the matched format's MIME type for
\* an accepted buffer and image/jpeg for a rejected one.
C6_Sniffer ==
    /\ pc \in { "sniff_mime", "sniffed" } =>
         trace[1][2] = Recognized(source_image)
    /\ pc = "sniffed" =>
         LET mime == trace[2][2] IN
         /\ IsJPEG(source_image) => mime = "image/jpeg"
         /\ IsPNG(source_image)  => mime = "image/png"
         /\ IsGIF(source_image)  => mime = "image/gif"
         /\ IsWEBP(source_image) => mime = "image/webp"
         /\ IsBMP(source_image)  => mime = "image/bmp"
         /\ ~Recognized(source_image) => mime = "image/jpeg"

\* a WEBP buffer was accepted and typed image/webp
C6_Witness ==
    /\ pc = "sniffed"
    /\ IsWEBP(source_image)
    /\ trace[1][2] = TRUE
    /\ trace[2][2] = "image/webp"

\* ---- authentication ----------------------------------------------------

AllowList == { << "t", "o", "k", "e", "n", "1" >>,
               << "t", "o", "k", "e", "n", "2" >> }

\* the header's scheme and token: the text before and after the first space
SchemeOf(h) == partition(h.text, " ")[1]
TokenOf(h)  == partition(h.text, " ")[3]

IsBearerAnyCase(sch) ==
    /\ Len(sch) = 6
    /\ sch[1] \in { "B", "b" }
    /\ sch[2] \in { "E", "e" }
    /\ sch[3] \in { "A", "a" }
    /\ sch[4] \in { "R", "r" }
    /\ sch[5] \in { "E", "e" }
    /\ sch[6] \in { "R", "r" }

AuthDecided == pc \notin { "idle", "auth", "sniff", "sniff_mime", "sniffed" }
Authenticated == Count("auth_ok") = 1

\* C1 as stated: a missing header is answered 401; a header whose scheme is
\* not "Bearer" or whose token is not in the allow-list is answered 403;
\* only an allow-listed token passes, and a request that failed
\* authentication makes no vendor call, download or upload.  (A header
\* that is present but empty is read as missing.)
C1_AsStated ==
    AuthDecided =>
      /\ (~authorization.present \/ authorization.text = << >>)
         => response.status = 401
      /\ ( /\ authorization.present
           /\ authorization.text # << >>
           /\ \/ SchemeOf(authorization) # << "B", "e", "a", "r", "e", "r" >>
              \/ TokenOf(authorization) \notin AllowList )
         => response.status = 403
      /\ Authenticated => TokenOf(authorization) \in AllowList
      /\ response.status \in { 401, 403 } => trace = << >>

\* C1: a missing or empty header is answered 401; a non-empty header whose
\* scheme is not "bearer" in any letter case, or whose token is not in the
\* allow-list, is answered 403; only an allow-listed token passes, and a
\* request that failed authentication makes no vendor call, download or
\* upload.
C1_Auth ==
    AuthDecided =>
      /\ (~authorization.present \/ authorization.text = << >>)
         => response.status = 401
      /\ ( /\ authorization.present
           /\ authorization.text # << >>
           /\ \/ ~IsBearerAnyCase(SchemeOf(authorization))
              \/ TokenOf(authorization) \notin AllowList )
         => response.status = 403
      /\ Authenticated <=> response.status \notin { 401, 403 }
      /\ Authenticated => TokenOf(authorization) \in AllowList
      /\ response.status \in { 401, 403 } => trace = << >> /\ pc = "done"

\* a Bearer header with a token outside the allow-list was answered 403
C1_Witness ==
    /\ pc = "done"
    /\ authorization.present
    /\ IsBearerAnyCase(SchemeOf(authorization))
    /\ TokenOf(authorization) = << "t", "o", "k", "e", "n", "3" >>
    /\ response.status = 403

\* ---- format rejection -------------------------------------------------

\* C2 as stated: an authenticated request with an upload that has no
\* recognized signature is answered 400, before any create-job call.
C2_Rejected400 ==
    ( /\ pc = "done"
      /\ Authenticated
      /\ ~Recognized(source_image) \/ ~Recognized(target_image) )
    => /\ response.status = 400
       /\ Count("create") = 0

\* ---- polling ----------------------------------------------------------

IsPollSuccess(e)    == e[2] = 200 /\ e[3] = 100000
IsPollProcessing(e) == e[2] = 200 /\ e[3] = 300001

LastOf(op) == CHOOSE i \in Ops(op) : \A j \in Ops(op) : j <= i

FetchFailed500 ==
    /\ pc = "done"
    /\ response.status = 500
    /\ response.body.detail = << "processing failed: ",
                                 "face-swap result fetch failed" >>

RetryExceeded500 ==
    /\ pc = "done"
    /\ response.status = 500
    /\ response.body.detail = << "processing failed: ",
                                 "maximum retries exceeded" >>

\* C3: an output URL is returned only on a response with status 200 and
\* code 100000; a further poll follows only a response with status 200 and
\* code 300001; any other response ends the operation at once with the
\* result-fetch failure, and no poll follows it.
C3_PollProtocol ==
    /\ result_url # "" =>
         /\ Ops("poll") # { }
         /\ IsPollSuccess(trace[LastOf("poll")])
         /\ result_url = trace[LastOf("poll")][4]
    /\ \A i \in Ops("poll") :
         /\ (\E j \in Ops("poll") : j > i) => IsPollProcessing(trace[i])
         /\ (~IsPollSuccess(trace[i]) /\ ~IsPollProcessing(trace[i])) =>
              /\ i = Len(trace)
              /\ FetchFailed500
              /\ result_url = ""

\* a poll answered with an unknown code after a processing answer
C3_Witness ==
    /\ Count("poll") = 3
    /\ trace[LastOf("poll")][2] = 200
    /\ trace[LastOf("poll")][3] = 400000
    /\ FetchFailed500

\* C4: with k < 30 answers 300001 followed by 100000 there are exactly k+1
\* polls, consecutive polls are separated by one sleep of the configured
\* interval, and the result is returned; with 30 answers 300001 there are
\* exactly 30 polls, never a 31st, the failure is the retry-ceiling one
\* (not the result-fetch one) and the response is 500.
C4_PollCounting ==
    LET k == Cardinality({ i \in Ops("poll") : IsPollProcessing(trace[i]) }) IN
    /\ Count("poll") <= 30
    /\ \A i \in Ops("poll") :
         (\E j \in Ops("poll") : j > i) =>
            /\ trace[i + 1][1] = "sleep"
            /\ trace[i + 1][2] = 2
            /\ trace[i + 2][1] = "poll"
    /\ (Ops("poll") # { } /\ IsPollSuccess(trace[LastOf("poll")])) =>
         /\ k < 30
         /\ Count("poll") = k + 1
         /\ Count("sleep") = k
         /\ result_url = trace[LastOf("poll")][4]
         /\ pc \in { "download", "upload", "remove", "done" }
         /\ ~RetryExceeded500
    /\ k = 30 =>
         /\ Count("poll") = 30
         /\ RetryExceeded500
         /\ ~FetchFailed500
         /\ result_url = ""

\* thirty polls were all answered 300001 and the request was answered 500
C4_Witness ==
    /\ Count("poll") = 30
    /\ \A i \in Ops("poll") : IsPollProcessing(trace[i])
    /\ RetryExceeded500

\* ---- the pipeline -----------------------------------------------------

Validated == Count("validated") = 1

CreateSucceeded(e)   == e[2] = 200 /\ e[3] = 100000
DownloadSucceeded(e) == e[3] = "ok"
UploadSucceeded(e)   == ~e[3] /\ e[4]
RemoveSucceeded(e)   == e[3]

\* the event at position i is a stage that failed
StageFailed(i) ==
    LET e == trace[i] IN
    \/ e[1] = "create" /\ ~CreateSucceeded(e)
    \/ e[1] = "poll" /\ ~IsPollSuccess(e) /\ ~IsPollProcessing(e)
    \/ e[1] = "sleep" /\ Count("sleep") = 30 /\ i = LastOf("sleep")
    \/ e[1] = "download" /\ ~DownloadSucceeded(e)
    \/ e[1] = "upload" /\ ~UploadSucceeded(e)
    \/ e[1] = "remove" /\ ~RemoveSucceeded(e)

\* the text of the failure of the stage at position i
FailureText(i) ==
    LET e == trace[i] IN
    CASE e[1] = "create"   -> << "BeArt job creation failed: ", "body" >>
      [] e[1] = "poll"     -> << "face-swap result fetch failed" >>
      [] e[1] = "sleep"    -> << "maximum retries exceeded" >>
      [] e[1] = "download" -> IF e[3] = "request_failed"
                              THEN << "HTTPError" >>
                              ELSE << "ChunkedEncodingError" >>
      [] e[1] = "upload"   -> IF e[3] THEN << "CosServiceError" >>
                              ELSE << "upload failed" >>
      [] OTHER             -> << "OSError" >>

\* C5 as stated: a request writes at most one local file, and that file is
\* gone from local storage when the response is produced, on every path.
C5_ArtifactRemoved ==
    /\ Cardinality(artifact) <= 1
    /\ response.status # 0 => artifact \cap disk = { }

\* C7: for an authenticated request with two valid images, a failed stage
\* (create-job, poll, download, upload, file deletion) is the last thing the
\* pipeline does: no later stage runs, the stage is not repeated, and the
\* response is 500 with the failure's message, never the success body.
C7_NoRecovery ==
    \A i \in DOMAIN trace :
       StageFailed(i) =>
          /\ Authenticated /\ Validated
          /\ i = Len(trace)
          /\ pc = "done"
          /\ response.status = 500
          /\ response.body.detail = << "processing failed: " >> \o FailureText(i)

\* the upload answered without an entity tag and the request got 500
C7_Witness ==
    /\ Count("upload") = 1
    /\ trace[Len(trace)][1] = "upload"
    /\ ~trace[Len(trace)][3]
    /\ ~trace[Len(trace)][4]
    /\ response.status = 500

\* C8: create_face_swap_job returns a job id exactly when the create-job
\* response has status 200 and code 100000; every other response fails with
\* the job-creation error, and no poll is made unless create-job succeeded.
C8_CreateJob ==
    /\ Count("poll") > 0 => Count("create") = 1
    /\ \A i \in Ops("create") :
         /\ job_id # "" <=> CreateSucceeded(trace[i])
         /\ CreateSucceeded(trace[i]) => job_id = "J1"
         /\ ~CreateSucceeded(trace[i]) =>
              /\ Count("poll") = 0
              /\ pc = "done"
              /\ response.status = 500
              /\ response.body.detail = << "processing failed: ",
                                           "BeArt job creation failed: ",
                                           "body" >>
    /\ job_id # "" => Count("create") = 1

\* create-job answered status 200 with a code other than 100000
C8_Witness ==
    /\ Count("create") = 1
    /\ trace[LastOf("create")][2] = 200
    /\ trace[LastOf("create")][3] = 300001
    /\ job_id = ""
    /\ response.status = 500

IsSuccessBody ==
    /\ response.status = 200
    /\ DOMAIN response.body = { "success", "image_url", "original_url" }

\* C9: a success body is produced only after, in this order, authentication,
\* validation of both images, a successful create-job, polls ending in code
\* 100000, a completed download, an upload that reported an ETag and the
\* deletion of the local file; original_url is the URL of the successful poll
\* and image_url is the bucket URL of the downloaded file's generated name.
C9_Ordering ==
    IsSuccessBody =>
      LET n == Len(trace)
          polls == Count("poll")
      IN
      /\ response.body.success = TRUE
      /\ polls >= 1
      /\ n = 2 * polls + 5
      /\ trace[1][1] = "auth_ok" /\ TokenOf(authorization) \in AllowList
      /\ trace[2][1] = "validated"
      /\ Recognized(source_image) /\ Recognized(target_image)
      /\ trace[3][1] = "create" /\ CreateSucceeded(trace[3])
      /\ \A i \in 4..(n - 4) :
           IF (i - 4) % 2 = 0
           THEN trace[i][1] = "poll" /\ IsPollProcessing(trace[i])
           ELSE trace[i][1] = "sleep"
      /\ trace[n - 3][1] = "poll" /\ IsPollSuccess(trace[n - 3])
      /\ trace[n - 2][1] = "download" /\ DownloadSucceeded(trace[n - 2])
      /\ trace[n - 1][1] = "upload" /\ UploadSucceeded(trace[n - 1])
      /\ trace[n][1] = "remove" /\ RemoveSucceeded(trace[n])
      /\ response.body.original_url = trace[n - 3][4]
      /\ trace[n - 2][2] = trace[n - 3][4]
      /\ \E stamp \in Stamps :
           LET name == << "faceswap_", stamp, ".jpg" >> IN
           /\ artifact = { << "./output", "/", name >> }
           /\ trace[n - 1][2] = name
           /\ trace[n][2] = << "./output", "/", name >>
           /\ response.body.image_url =
                << "https://", "bucket", ".cos.", "region", ".myqcloud.com/",
                   name >>

\* a success body after two processing answers
C9_Witness ==
    /\ IsSuccessBody
    /\ Count("poll") = 3
    /\ response.body.original_url = "https://vendor/out2.jpg"

\* C10: a request makes at most one create-job call, at most 30 polls, at
\* most one download and at most one upload, and the number of sleeps equals
\* the number of 300001 answers received (a sleep follows the 30th as well).
C10_CallBounds ==
    /\ Count("create") <= 1
    /\ Count("poll") <= 30
    /\ Count("download") <= 1
    /\ Count("upload") <= 1
    /\ Count("sleep") =
         Cardinality({ i \in Ops("poll") : IsPollProcessing(trace[i]) })
    /\ \A i \in Ops("poll") :
         IsPollProcessing(trace[i]) =>
           i < Len(trace) /\ trace[i + 1][1] = "sleep"

\* the 30th answer 300001 was followed by a sleep before the failure
C10_Witness ==
    /\ Count("sleep") = 30
    /\ trace[Len(trace)][1] = "sleep"
    /\ response.status = 500

====
